---- MODULE Spec2Model ----
(***************************************************************************)
(* Earliest-arrival search on a timetable graph                            *)
(* (src/src/shortest_path_times_table.cpp): Edge::get_travel_time, the     *)
(* Graph class (constructor, add_one_way_edge, graph_reset, get_path) and  *)
(* dijkstra_timetable, as a state machine.                                 *)
(***************************************************************************)
EXTENDS Integers, Sequences, FiniteSets, TLC

VARIABLES
    num_nodes,    \* Graph::nodes.size()
    start_index,  \* Graph::start_index
    edges,        \* Node::edges of every node: node index -> sequence of Edge
    value,        \* Node::value of every node
    visited,      \* Node::visited of every node
    prev_node,    \* Node::prev_node of every node (NULL for nullptr)
    addr,         \* rank of every node's heap address (the set orders Node*)
    prio_queue,   \* dijkstra_timetable: set<pair<int, Node*>>
    pc,           \* position of the program
    curr_cost_node, \* dijkstra_timetable: pair<int, Node*> curr_cost_node
    edge_pos,     \* dijkstra_timetable: position of the range-for over the edges
    order,        \* history: the values of the nodes in the order they were visited
    path_call,    \* the last call of Graph::get_path and what it returned
    travel_call,  \* the last call of Edge::get_travel_time and its outcome
    fresh,        \* history: the result of the first search on the first graph
    tally,        \* history: the nodes visited, the edges relaxed and the number
                  \* of entries inserted into the queue by the current search
    cout,         \* main: the queries answered and the lines written to std::cout
    lab1,         \* the Graph of src/lab1/interval_covers.cpp after its dijkstra
    reset_calls,  \* history: the arguments of the calls of Graph::graph_reset
                  \* made on their own (outside dijkstra_timetable)
    count_call    \* the call of count_intervals and what it returned

vars == <<num_nodes, start_index, edges, value, visited, prev_node, addr,
          prio_queue, pc, curr_cost_node, edge_pos, order, path_call, travel_call,
          fresh, tally, cout, lab1, reset_calls, count_call>>

(***************************************************************************)
(* Program constants                                                       *)
(***************************************************************************)
\* static const int INF = numeric_limits<int>::max()
INF == 2147483647

\* nullptr, as a node index no node has
NULL == -1

(***************************************************************************)
(* Bounds of the model                                                     *)
(***************************************************************************)
NumNodes == 3
MaxEdges == 3
MaxStart == 1
MaxPeriod == 2
MaxTrav == 1
MaxTime == 4
NumNodesRebuilt == 4
MaxEdgesRebuilt == 4

Nodes == 0 .. (num_nodes - 1)

(***************************************************************************)
(* int arithmetic (TLC computes in 32-bit integers too: no operation here   *)
(* leaves their range)                                                     *)
(***************************************************************************)
\* INT_MIN
INT_MIN == -INF - 1

\* a + b leaves the range of int (signed overflow)
AddOverflows(a, b) ==
    \/ b > 0 /\ a > INF - b
    \/ b < 0 /\ a < INT_MIN - b

\* a + b on 32-bit int as the add instruction computes it: outside the range
\* of int the result wraps by 2^32
Add32(a, b) ==
    IF b > 0 /\ a > INF - b
    THEN (a - INF - 1) + (b - INF - 1)
    ELSE IF b < 0 /\ a < INT_MIN - b
    THEN ((a + INF) + 1) + ((b + INF) + 1)
    ELSE a + b

\* a - b leaves the range of int
SubOverflows(a, b) ==
    IF b = INT_MIN THEN a >= 0 ELSE AddOverflows(a, -b)

\* a - b on 32-bit int as the subtract instruction computes it
Sub32(a, b) ==
    IF b = INT_MIN THEN Add32(Add32(a, INF), 1) ELSE Add32(a, -b)

\* an outcome of a call: a returned value, or the process dies in the call
Returns(v) == [fault |-> FALSE, ret |-> v]
Faults == [fault |-> TRUE, ret |-> 0]

\* a signed overflow is undefined: a build either computes the wrapped value
\* (the plain add or subtract instruction) or traps (-ftrapv, a sanitizer)
Overflowed(wrapped) == {Faults, Returns(wrapped)}

\* a % b for a >= 0: undefined for b = 0, where a build either traps (the
\* integer divide instruction raises SIGFPE) or, on a target whose divide
\* instruction yields 0 for a zero divisor, computes a - (a / b) * b = a
Rem32(a, b) ==
    IF b = 0
    THEN {Faults, Returns(a)}
    ELSE {Returns(a % b)}

(***************************************************************************)
(* struct Edge                                                             *)
(***************************************************************************)
Edge(node, traverse_time, start_time, departure_time) ==
    [connection_node |-> node, traverse_time |-> traverse_time,
     start_time |-> start_time, departure_time |-> departure_time]

\* the wait without the test of line 52 for a current_time that is a
\* departure: a whole period is waited there
wait_time_full_period(edge, current_time) ==
    IF current_time < edge.start_time
    THEN IF SubOverflows(edge.start_time, current_time)
         THEN Overflowed(Sub32(edge.start_time, current_time))
         ELSE {Returns(edge.start_time - current_time)}
    ELSE {IF r.fault
          THEN Faults
          ELSE Returns(edge.departure_time - r.ret)
          : r \in Rem32(current_time - edge.start_time, edge.departure_time)}

\* the wait without the branch of lines 49-50: no wait for the first departure
wait_time_not_before_start(edge, current_time) ==
    IF current_time < edge.start_time
    THEN {Returns(0)}
    ELSE {IF r.fault
          THEN Faults
          ELSE Returns(IF r.ret = 0 THEN 0 ELSE edge.departure_time - r.ret)
          : r \in Rem32(current_time - edge.start_time, edge.departure_time)}

\* lines 48-57 of Edge::get_travel_time: the outcomes of computing wait_time
wait_time(edge, current_time) ==
    IF current_time < edge.start_time
    THEN IF SubOverflows(edge.start_time, current_time)
         THEN Overflowed(Sub32(edge.start_time, current_time))
         ELSE {Returns(edge.start_time - current_time)}
    ELSE {IF r.fault
          THEN Faults
          ELSE Returns(IF r.ret = 0 THEN 0 ELSE edge.departure_time - r.ret)
          : r \in Rem32(current_time - edge.start_time, edge.departure_time)}

\* line 58: the outcomes of current_time + traverse_time + wait_time
travel_sum(current_time, traverse_time, wait) ==
    LET first == Add32(current_time, traverse_time) IN
    IF AddOverflows(current_time, traverse_time) \/ AddOverflows(first, wait)
    THEN Overflowed(Add32(first, wait))
    ELSE {Returns(first + wait)}

\* get_travel_time without the test of line 45 for a one-shot edge whose
\* departure has passed
get_travel_time_no_expiry(edge, current_time) ==
    UNION {IF w.fault
           THEN {Faults}
           ELSE travel_sum(current_time, edge.traverse_time, w.ret)
           : w \in wait_time(edge, current_time)}

\* Edge::get_travel_time: the set of outcomes of the call
get_travel_time(edge, current_time) ==
    IF current_time > edge.start_time /\ edge.departure_time = 0
    THEN {Returns(INF)}
    ELSE UNION {IF w.fault
                THEN {Faults}
                ELSE travel_sum(current_time, edge.traverse_time, w.ret)
                : w \in wait_time(edge, current_time)}

(***************************************************************************)
(* class Graph                                                             *)
(***************************************************************************)
\* the orders in which the allocator lays out the nodes of a graph, which
\* the language leaves unspecified: consecutive allocations from an untouched
\* heap ascend, and allocations served from the free list that the nodes of
\* the previous graph were put on (last freed, first reused) descend
AddrOrders(n) ==
    {[i \in 0 .. (n - 1) |-> i + 1], [i \in 0 .. (n - 1) |-> n - i]}

\* Graph::Graph(num_nodes, init_value, start_index): the fields of the nodes
NewValue(n, init_value) == [i \in 0 .. (n - 1) |-> init_value]
NewVisited(n) == [i \in 0 .. (n - 1) |-> FALSE]
NewPrev(n) == [i \in 0 .. (n - 1) |-> NULL]
NewEdges(n) == [i \in 0 .. (n - 1) |-> <<>>]

\* Graph::graph_reset(new_start_index, init_value): the fields of the nodes
graph_reset_value(init_value) == [i \in Nodes |-> init_value]
graph_reset_visited == [i \in Nodes |-> FALSE]

\* the prev_node links left as they are by a reset
graph_reset_prev_kept == prev_node

\* node->set_prev_node(nullptr) for every node
graph_reset_prev == [i \in Nodes |-> NULL]

\* the number of edges added so far
RECURSIVE EdgesUpTo(_)
EdgesUpTo(i) == IF i < 0 THEN 0 ELSE Len(edges[i]) + EdgesUpTo(i - 1)
EdgeCount == EdgesUpTo(num_nodes - 1)

\* end_node_index >= get_nodes().size(): the int is converted to size_t, so
\* a negative index becomes a value above every size
IndexOutOfRange(end_node_index, size) ==
    end_node_index < 0 \/ end_node_index >= size

\* Graph::get_path, the loop that follows prev_node from current_prev
RECURSIVE FollowPrev(_)
FollowPrev(current_prev) ==
    IF current_prev = NULL
    THEN <<>>
    ELSE <<current_prev>> \o FollowPrev(prev_node[current_prev])

\* the path left in the order it was collected in, end node first
NotReversed(s) == s

\* std::reverse
Reverse(s) == [i \in 1 .. Len(s) |-> s[Len(s) + 1 - i]]

\* Graph::get_path(end_node_index)
get_path(end_node_index) ==
    IF IndexOutOfRange(end_node_index, num_nodes)
    THEN <<>>
    ELSE Reverse((IF visited[end_node_index] THEN <<end_node_index>> ELSE <<>>)
                 \o FollowPrev(prev_node[end_node_index]))

\* Graph::add_one_way_edge(node1, node2, start_time, departure_time, traverse_time)
add_one_way_edge(node1, node2, start_time, departure_time, traverse_time) ==
    /\ pc = "build"
    /\ edges' = [edges EXCEPT ![node1] =
                    Append(@, Edge(node2, traverse_time, start_time, departure_time))]
    /\ UNCHANGED <<num_nodes, start_index, value, visited, prev_node, addr,
                   prio_queue, pc, curr_cost_node, edge_pos, order, path_call,
                   travel_call, fresh, tally, cout, lab1,
                   reset_calls, count_call>>

(***************************************************************************)
(* dijkstra_timetable                                                      *)
(***************************************************************************)
NoPair == <<0, NULL>>
NoPathCall == [called |-> FALSE, arg |-> 0, ret |-> <<>>]
NoTravelCall == [called |-> FALSE]
NoFresh == [set |-> FALSE]
NoTally == [visits |-> <<>>, relaxed |-> <<>>, inserts |-> 0]
NoLab1 == [ran |-> FALSE]
NoCountCall == [called |-> FALSE]

\* operator< of pair<int, Node*>: by the int, then by the address of the node
PairLess(p, q) ==
    \/ p[1] < q[1]
    \/ p[1] = q[1] /\ addr[p[2]] < addr[q[2]]

\* the greatest entry of the queue instead of the least
BeginGreatest(queue) ==
    CHOOSE p \in queue : \A q \in queue \ {p} : PairLess(q, p)

\* *prio_queue.begin()
Begin(queue) == CHOOSE p \in queue : \A q \in queue \ {p} : PairLess(p, q)

\* the comparison of line 290 with <= for <
ImprovesOrEqual(upd_time, neighbour_value) == upd_time <= neighbour_value

\* if(upd_time < neighbour_value)
Improves(upd_time, neighbour_value) == upd_time < neighbour_value

\* lines 252-260: reset the graph, set the start node to 0 and queue it
DijkstraStart(start_node_index) ==
    /\ pc \in {"build", "built", "done"}
    /\ pc \in {"build", "built"} => start_node_index = start_index
    /\ start_index' = start_node_index
    /\ value' = [graph_reset_value(INF) EXCEPT ![start_node_index] = 0]
    /\ visited' = graph_reset_visited
    /\ prev_node' = graph_reset_prev
    /\ prio_queue' = {<<0, start_node_index>>}
    /\ curr_cost_node' = NoPair
    /\ edge_pos' = 0
    /\ order' = <<>>
    /\ path_call' = NoPathCall
    /\ pc' = "loop"
    /\ tally' = [NoTally EXCEPT !.inserts = 1]
    /\ UNCHANGED <<num_nodes, edges, addr, travel_call, fresh, cout, lab1,
                   reset_calls, count_call>>

\* lines 264-272: the least entry is of a node already visited
ExtractStale ==
    /\ pc = "loop"
    /\ prio_queue # {}
    /\ LET entry == Begin(prio_queue) IN
        /\ visited[entry[2]]
        /\ curr_cost_node' = entry
        /\ prio_queue' = prio_queue \ {entry}
    /\ UNCHANGED <<num_nodes, start_index, edges, value, visited, prev_node,
                   addr, pc, edge_pos, order, path_call, travel_call, fresh,
                   tally, cout, lab1, reset_calls, count_call>>

\* lines 264-274: the least entry is of a node not visited yet: visit it
ExtractVisit ==
    /\ pc = "loop"
    /\ prio_queue # {}
    /\ LET entry == Begin(prio_queue) IN
        /\ ~visited[entry[2]]
        /\ curr_cost_node' = entry
        /\ prio_queue' = prio_queue \ {entry}
        /\ visited' = [visited EXCEPT ![entry[2]] = TRUE]
        /\ order' = Append(order, value[entry[2]])
        /\ tally' = [tally EXCEPT !.visits = Append(@, entry[2])]
        /\ IF edges[entry[2]] = <<>>
           THEN pc' = "loop" /\ edge_pos' = 0
           ELSE pc' = "edges" /\ edge_pos' = 1
    /\ UNCHANGED <<num_nodes, start_index, edges, value, prev_node, addr,
                   path_call, travel_call, fresh, cout, lab1,
                   reset_calls, count_call>>

\* the range-for of line 277 moves to the next edge, or the loop body ends
NextEdge ==
    IF edge_pos < Len(edges[curr_cost_node[2]])
    THEN pc' = "edges" /\ edge_pos' = edge_pos + 1
    ELSE pc' = "loop" /\ edge_pos' = 0

\* lines 278-282: the head of the edge is visited already
RelaxSkip ==
    /\ pc = "edges"
    /\ LET edge == edges[curr_cost_node[2]][edge_pos] IN
        visited[edge.connection_node]
    /\ NextEdge
    /\ UNCHANGED <<num_nodes, start_index, edges, value, visited, prev_node,
                   addr, prio_queue, curr_cost_node, order, path_call,
                   travel_call, fresh, tally, cout, lab1,
                   reset_calls, count_call>>

\* the relaxation without the test of line 280 and with <= for < in line 290
RelaxAnyHead ==
    /\ pc = "edges"
    /\ LET curr_node == curr_cost_node[2]
           edge == edges[curr_node][edge_pos]
           neighbour_node == edge.connection_node
           current_time == value[curr_node]
       IN
        \E out \in get_travel_time(edge, current_time) :
            IF out.fault
            THEN /\ pc' = "fault"
                 /\ tally' = [tally EXCEPT
                                !.relaxed = Append(@, <<curr_node, edge_pos>>)]
                 /\ UNCHANGED <<value, prev_node, prio_queue, edge_pos>>
            ELSE /\ IF out.ret <= value[neighbour_node]
                    THEN /\ value' = [value EXCEPT ![neighbour_node] = out.ret]
                         /\ prev_node' = [prev_node EXCEPT ![neighbour_node] = curr_node]
                         /\ prio_queue' = prio_queue \cup {<<out.ret, neighbour_node>>}
                         /\ tally' = [tally EXCEPT
                                        !.relaxed = Append(@, <<curr_node, edge_pos>>),
                                        !.inserts = @ + 1]
                    ELSE /\ tally' = [tally EXCEPT
                                        !.relaxed = Append(@, <<curr_node, edge_pos>>)]
                         /\ UNCHANGED <<value, prev_node, prio_queue>>
                 /\ NextEdge
    /\ UNCHANGED <<num_nodes, start_index, edges, visited, addr, curr_cost_node,
                   order, path_call, travel_call, fresh, cout, lab1,
                   reset_calls, count_call>>

\* lines 278-294: the head of the edge is not visited
Relax ==
    /\ pc = "edges"
    /\ LET curr_node == curr_cost_node[2]
           edge == edges[curr_node][edge_pos]
           neighbour_node == edge.connection_node
           current_time == value[curr_node]
       IN
        /\ ~visited[neighbour_node]
        /\ \E out \in get_travel_time(edge, current_time) :
            IF out.fault
            THEN /\ pc' = "fault"
                 /\ tally' = [tally EXCEPT
                                !.relaxed = Append(@, <<curr_node, edge_pos>>)]
                 /\ UNCHANGED <<value, prev_node, prio_queue, edge_pos>>
            ELSE /\ IF Improves(out.ret, value[neighbour_node])
                    THEN /\ value' = [value EXCEPT ![neighbour_node] = out.ret]
                         /\ prev_node' = [prev_node EXCEPT ![neighbour_node] = curr_node]
                         /\ prio_queue' = prio_queue \cup {<<out.ret, neighbour_node>>}
                         /\ tally' = [tally EXCEPT
                                        !.relaxed = Append(@, <<curr_node, edge_pos>>),
                                        !.inserts = @ + 1]
                    ELSE /\ tally' = [tally EXCEPT
                                        !.relaxed = Append(@, <<curr_node, edge_pos>>)]
                         /\ UNCHANGED <<value, prev_node, prio_queue>>
                 /\ NextEdge
    /\ UNCHANGED <<num_nodes, start_index, edges, visited, addr, curr_cost_node,
                   order, path_call, travel_call, fresh, cout, lab1,
                   reset_calls, count_call>>

\* line 263: the queue is empty, the search returns
LoopExit(record) ==
    /\ pc = "loop"
    /\ prio_queue = {}
    /\ pc' = "done"
    /\ curr_cost_node' = NoPair
    /\ fresh' = IF record /\ ~fresh.set
                THEN [set |-> TRUE, src |-> start_index, addr |-> addr,
                      value |-> value, visited |-> visited,
                      prev_node |-> prev_node]
                ELSE fresh
    /\ UNCHANGED <<num_nodes, start_index, edges, value, visited, prev_node,
                   addr, prio_queue, edge_pos, order, path_call, travel_call,
                   tally, cout, lab1, reset_calls, count_call>>

\* a call of get_path after the search
GetPath(end_node_index) ==
    /\ pc = "done"
    /\ path_call' = [called |-> TRUE, arg |-> end_node_index,
                     ret |-> get_path(end_node_index)]
    /\ UNCHANGED <<num_nodes, start_index, edges, value, visited, prev_node,
                   addr, prio_queue, pc, curr_cost_node, edge_pos, order,
                   travel_call, fresh, tally, cout, lab1,
                   reset_calls, count_call>>

(***************************************************************************)
(* main: the answers to the queries                                        *)
(***************************************************************************)
\* the characters of a line of output
Impossible == <<"I", "m", "p", "o", "s", "s", "i", "b", "l", "e">>
Digits == <<"0", "1", "2", "3", "4", "5", "6", "7", "8", "9">>

\* the decimal digits of n >= 0, most significant first
RECURSIVE DecimalDigits(_)
DecimalDigits(n) ==
    IF n < 10
    THEN <<Digits[n + 1]>>
    ELSE DecimalDigits(n \div 10) \o <<Digits[(n % 10) + 1]>>

\* std::cout << value for an int: a minus sign and the digits of -n for n < 0
\* (computed from -(n + 1), which is an int for INT_MIN too)
PutInt(n) ==
    IF n >= 0
    THEN DecimalDigits(n)
    ELSE LET m == -(n + 1) IN
         <<"-">> \o
         (IF m % 10 = 9
          THEN DecimalDigits((m \div 10) + 1) \o <<"0">>
          ELSE (IF m < 10 THEN <<>> ELSE DecimalDigits(m \div 10))
               \o <<Digits[(m % 10) + 2]>>)

\* the line written for a node without the test of line 343
AnswerLineNoTest(node_value) == PutInt(node_value)

\* lines 342-347: the line written for a node of this value
AnswerLine(node_value) ==
    IF node_value = INF THEN Impossible ELSE PutInt(node_value)

(***************************************************************************)
(* The program: a graph is built edge by edge, then searched and queried   *)
(***************************************************************************)
\* the timetables of the input: first departure, period (0: one departure
\* only, or MaxPeriod), duration
Starts == 0 .. MaxStart
Periods == {0, MaxPeriod}
Travs == 0 .. MaxTrav


InitGraph(n, starts, orders) ==
    /\ num_nodes = n
    /\ start_index \in starts
    /\ edges = NewEdges(n)
    /\ value = NewValue(n, INF)
    /\ visited = NewVisited(n)
    /\ prev_node = NewPrev(n)
    /\ addr \in orders
    /\ prio_queue = {}
    /\ pc = "build"
    /\ curr_cost_node = NoPair
    /\ edge_pos = 0
    /\ order = <<>>
    /\ path_call = NoPathCall
    /\ travel_call = NoTravelCall
    /\ fresh = NoFresh
    /\ tally = NoTally
    /\ cout = <<>>
    /\ lab1 = NoLab1
    /\ reset_calls = <<>>
    /\ count_call = NoCountCall

Init == InitGraph(NumNodes, {0}, AddrOrders(NumNodes))

AddEdge ==
    /\ EdgeCount < MaxEdges
    /\ \E node1, node2 \in Nodes, s \in Starts, d \in Periods, t \in Travs :
        add_one_way_edge(node1, node2, s, d, t)

Search == DijkstraStart(start_index)

Query == \E t \in -1 .. num_nodes : GetPath(t)

Next ==
    \/ AddEdge
    \/ Search
    \/ ExtractStale
    \/ ExtractVisit
    \/ RelaxSkip
    \/ Relax
    \/ LoopExit(FALSE)
    \/ Query

Spec == Init /\ [][Next]_vars

\* a search that was started keeps running: the loop of lines 263-296 has no
\* point at which it waits for anything
SearchStep ==
    \/ ExtractStale
    \/ ExtractVisit
    \/ RelaxSkip
    \/ Relax
    \/ LoopExit(FALSE)

\* the graphs of Spec with at most MaxEdgesFair edges
MaxEdgesFair == 2

AddEdgeFair == EdgeCount < MaxEdgesFair /\ AddEdge

NextFair ==
    \/ AddEdgeFair
    \/ Search
    \/ SearchStep

SpecFair == Init /\ [][NextFair]_vars /\ WF_vars(SearchStep)

(***************************************************************************)
(* The same test case read again: main builds a new Graph from the same    *)
(* edges, so searches on two graphs with the same edges can be compared    *)
(***************************************************************************)
InitRebuild ==
    InitGraph(NumNodesRebuilt, {0}, AddrOrders(NumNodesRebuilt))

\* edges from a node to a node of higher index, all on one periodic timetable
AddEdgeForward ==
    /\ EdgeCount < MaxEdgesRebuilt
    /\ \E node1, node2 \in Nodes, t \in Travs :
        /\ node1 < node2
        /\ add_one_way_edge(node1, node2, 0, MaxPeriod, t)

SearchAny == \E s \in Nodes : DijkstraStart(s)

\* lines 312-321 for a test case with the edges of the one before: the old
\* graph is destroyed, the nodes are allocated again and the same edges are
\* added in the same order
NewGraph ==
    /\ pc = "done"
    /\ pc' = "built"
    /\ addr' \in AddrOrders(num_nodes)
    /\ start_index' \in Nodes
    /\ value' = NewValue(num_nodes, INF)
    /\ visited' = NewVisited(num_nodes)
    /\ prev_node' = NewPrev(num_nodes)
    /\ order' = <<>>
    /\ path_call' = NoPathCall
    /\ UNCHANGED <<num_nodes, edges, prio_queue, curr_cost_node, edge_pos,
                   travel_call, fresh, tally, cout, lab1,
                   reset_calls, count_call>>

NextRebuild ==
    \/ AddEdgeForward
    \/ SearchAny
    \/ ExtractStale
    \/ ExtractVisit
    \/ RelaxSkip
    \/ Relax
    \/ LoopExit(TRUE)
    \/ NewGraph

SpecRebuild == InitRebuild /\ [][NextRebuild]_vars

(***************************************************************************)
(* One test case of main: the edges are read, the search is run once and   *)
(* the queries are answered                                                *)
(***************************************************************************)
MaxEdgesMain == 2
MaxQueries == 2

\* the timetables of the test case: first departure, period, duration
StartsMain == {5, 10}
PeriodsMain == {0, 3}
TravsMain == {1, 2}

InitMain == InitGraph(NumNodes, 0 .. (NumNodes - 1), AddrOrders(NumNodes))

\* lines 318-321
AddEdgeMain ==
    /\ EdgeCount < MaxEdgesMain
    /\ \E node1, node2 \in Nodes, s \in StartsMain, d \in PeriodsMain,
          t \in TravsMain :
        add_one_way_edge(node1, node2, s, d, t)

\* line 323
SearchMain == pc = "build" /\ DijkstraStart(start_index)

\* lines 339-348, one pass of the loop: a query is read and answered
Answer(query) ==
    /\ pc = "done"
    /\ Len(cout) < MaxQueries
    /\ cout' = Append(cout, [query |-> query, line |-> AnswerLine(value[query])])
    /\ UNCHANGED <<num_nodes, start_index, edges, value, visited, prev_node,
                   addr, prio_queue, pc, curr_cost_node, edge_pos, order,
                   path_call, travel_call, fresh, tally, lab1,
                   reset_calls, count_call>>

Answers == \E query \in Nodes : Answer(query)

NextMain ==
    \/ AddEdgeMain
    \/ SearchMain
    \/ ExtractStale
    \/ ExtractVisit
    \/ RelaxSkip
    \/ Relax
    \/ LoopExit(FALSE)
    \/ Answers

SpecMain == InitMain /\ [][NextMain]_vars

(***************************************************************************)
(* Test cases with times at the upper end of int                           *)
(***************************************************************************)
MaxEdgesWide == 2

\* first departure (0, or one below INT_MAX), period, duration
StartsWide == {0, INF - 1}
PeriodsWide == {0, 2}
TravsWide == {0, 2}

\* lines 318-321
AddEdgeWide ==
    /\ EdgeCount < MaxEdgesWide
    /\ \E node1, node2 \in Nodes, s \in StartsWide, d \in PeriodsWide,
          t \in TravsWide :
        add_one_way_edge(node1, node2, s, d, t)

NextWide ==
    \/ AddEdgeWide
    \/ SearchMain
    \/ ExtractStale
    \/ ExtractVisit
    \/ RelaxSkip
    \/ Relax
    \/ LoopExit(FALSE)
    \/ Answers

SpecWide == Init /\ [][NextWide]_vars

(***************************************************************************)
(* The constant-weight search of src/lab1/interval_covers.cpp, run on the  *)
(* edges of the timetable graph with edge_cost = traverse_time             *)
(***************************************************************************)
MaxEdgesConstant == 3
MaxWeight == 2

\* the edges of the constant-weight Graph: Edge{connection_node, edge_cost}
CostEdges ==
    [u \in Nodes |->
        [i \in 1 .. Len(edges[u]) |->
            [connection_node |-> edges[u][i].connection_node,
             edge_cost |-> edges[u][i].traverse_time]]]

\* *prio_queue.begin() on a graph whose nodes lie at the addresses a
BeginAt(a, queue) ==
    CHOOSE p \in queue :
        \A q \in queue \ {p} :
            \/ p[1] < q[1]
            \/ p[1] = q[1] /\ a[p[2]] < a[q[2]]

\* dijkstra, the range-for over the edges of curr_node from the i-th edge on
RECURSIVE dijkstra_edges(_, _, _, _)
dijkstra_edges(g, cost_edges, curr_node, i) ==
    IF i > Len(cost_edges[curr_node])
    THEN g
    ELSE LET edge == cost_edges[curr_node][i]
             neighbour_node == edge.connection_node
             travel_cost == edge.edge_cost
             neighbour_value == g.value[neighbour_node]
             upd_cost == Add32(g.value[curr_node], travel_cost)
         IN
         IF g.visited[neighbour_node]
         THEN dijkstra_edges(g, cost_edges, curr_node, i + 1)
         ELSE IF upd_cost < neighbour_value
         THEN dijkstra_edges(
                [g EXCEPT !.value[neighbour_node] = upd_cost,
                          !.prev_node[neighbour_node] = curr_node,
                          !.prio_queue = @ \cup {<<upd_cost, neighbour_node>>}],
                cost_edges, curr_node, i + 1)
         ELSE dijkstra_edges(g, cost_edges, curr_node, i + 1)

\* dijkstra, the while loop over the queue
RECURSIVE dijkstra_loop(_, _, _)
dijkstra_loop(g, cost_edges, a) ==
    IF g.prio_queue = {}
    THEN g
    ELSE LET entry == BeginAt(a, g.prio_queue)
             curr_node == entry[2]
             erased == [g EXCEPT !.prio_queue = @ \ {entry}]
         IN
         IF g.visited[curr_node]
         THEN dijkstra_loop(erased, cost_edges, a)
         ELSE dijkstra_loop(
                dijkstra_edges([erased EXCEPT !.visited[curr_node] = TRUE],
                               cost_edges, curr_node, 1),
                cost_edges, a)

\* dijkstra(graph, start_node_index): the fields of the nodes when it returns
dijkstra(cost_edges, start_node_index, a) ==
    dijkstra_loop(
        [value |-> [graph_reset_value(INF) EXCEPT ![start_node_index] = 0],
         visited |-> graph_reset_visited,
         prev_node |-> graph_reset_prev,
         prio_queue |-> {<<0, start_node_index>>}],
        cost_edges, a)

\* an edge of constant weight as a timetable: it leaves at every time unit
AddEdgeConstant ==
    /\ EdgeCount < MaxEdgesConstant
    /\ \E node1, node2 \in Nodes, weight \in 0 .. MaxWeight :
        add_one_way_edge(node1, node2, 0, 1, weight)

\* the constant-weight program builds its Graph from the same edges and
\* runs dijkstra from the same source
RunDijkstra ==
    /\ pc = "done"
    /\ ~lab1.ran
    /\ \E a \in AddrOrders(num_nodes) :
        LET g == dijkstra(CostEdges, start_index, a) IN
        lab1' = [ran |-> TRUE, value |-> g.value, visited |-> g.visited,
                 prev_node |-> g.prev_node]
    /\ UNCHANGED <<num_nodes, start_index, edges, value, visited, prev_node,
                   addr, prio_queue, pc, curr_cost_node, edge_pos, order,
                   path_call, travel_call, fresh, tally, cout,
                   reset_calls, count_call>>

NextConstant ==
    \/ AddEdgeConstant
    \/ SearchMain
    \/ ExtractStale
    \/ ExtractVisit
    \/ RelaxSkip
    \/ Relax
    \/ LoopExit(FALSE)
    \/ RunDijkstra

SpecConstant == InitMain /\ [][NextConstant]_vars

(***************************************************************************)
(* Graph::graph_reset called on its own, between the reading of the edges  *)
(* and the searches                                                        *)
(***************************************************************************)
MaxResets == 1

\* the init_value of a call
ResetValues == {0, 1, INF}

\* Graph::graph_reset(new_start_index, init_value)
graph_reset(new_start_index, init_value) ==
    /\ pc \in {"build", "done"}
    /\ Len(reset_calls) < MaxResets
    /\ prev_node' = graph_reset_prev
    /\ value' = graph_reset_value(init_value)
    /\ visited' = graph_reset_visited
    /\ start_index' = new_start_index
    /\ reset_calls' = Append(reset_calls,
                             [new_start_index |-> new_start_index,
                              init_value |-> init_value])
    /\ UNCHANGED <<num_nodes, edges, addr, prio_queue, pc, curr_cost_node,
                   edge_pos, order, path_call, travel_call, fresh, tally, cout,
                   lab1, count_call>>

Reset ==
    \E new_start_index \in Nodes, init_value \in ResetValues :
        graph_reset(new_start_index, init_value)

NextReset ==
    \/ AddEdgeFair
    \/ Search
    \/ SearchStep
    \/ Reset

SpecReset == Init /\ [][NextReset]_vars

(***************************************************************************)
(* count_intervals (src/lab1/interval_covers.cpp): the fewest of the       *)
(* candidate intervals that cover a target interval                        *)
(***************************************************************************)
MaxCoord == 3
MaxIntervals == 3

\* DBL_MAX, the start and end of the interval that count_intervals appends:
\* only its order matters, it is above every endpoint of the input
DBL_MAX == INF

\* an interval <<start, end>> with integer-valued endpoints
Intervals == {<<a, b>> : a \in 0 .. MaxCoord, b \in 0 .. MaxCoord}
ProperIntervals == {iv \in Intervals : iv[1] <= iv[2]}

\* main: the k-th interval read gets the index k - 1
Tagged(candidates) ==
    [k \in 1 .. Len(candidates) |->
        <<candidates[k][1], candidates[k][2], k - 1>>]

\* interval_compare
interval_compare(i1, i2) == i1[1] < i2[1]

\* the orders in which the intervals can be left without any sort
AnyOrders(intervals) ==
    {[k \in 1 .. Len(intervals) |-> intervals[perm[k]]] :
        perm \in {f \in [1 .. Len(intervals) -> 1 .. Len(intervals)] :
                    \A x, y \in 1 .. Len(intervals) : x # y => f[x] # f[y]}}

\* sort(intervals.begin(), intervals.end(), interval_compare): std::sort is
\* not stable, so intervals of equal start end in any order
SortedOrders(intervals) ==
    {sorted \in AnyOrders(intervals) :
        \A x, y \in 1 .. Len(sorted) :
            x < y => ~interval_compare(sorted[y], sorted[x])}

\* the for loop of count_intervals from the state st (start, end, index,
\* indexes and the position i) to the break
RECURSIVE count_loop(_, _, _)
count_loop(st, intervals, primary_end) ==
    IF st.i > Len(intervals)
    THEN st
    ELSE LET new_interval == intervals[st.i]
             new_start == new_interval[1]
             new_end == new_interval[2]
         IN
         IF new_start <= st.start
         THEN count_loop(
                IF new_end > st.end
                THEN [st EXCEPT !.end = new_end, !.index = new_interval[3],
                                !.i = @ + 1]
                ELSE [st EXCEPT !.i = @ + 1],
                intervals, primary_end)
         ELSE LET moved == [st EXCEPT
                              !.start = st.end,
                              !.indexes = IF st.index # -1
                                          THEN Append(@, st.index)
                                          ELSE @]
              IN
              IF new_start > moved.end \/ moved.end >= primary_end
              THEN moved
              ELSE count_loop(moved, intervals, primary_end)

\* count_intervals(interval, intervals) after the sort has left the
\* intervals in the order sorted
count_intervals(interval, sorted) ==
    LET primary_start == interval[1]
        primary_end == interval[2]
        final == count_loop([start |-> primary_start, end |-> primary_start - 1,
                             index |-> -1, indexes |-> <<>>, i |-> 1],
                            Append(sorted, <<DBL_MAX, DBL_MAX, -1>>),
                            primary_end)
    IN
    IF final.end < primary_end THEN <<-1>> ELSE final.indexes

\* the candidate lists of at most n intervals
RECURSIVE CandidateLists(_)
CandidateLists(n) ==
    IF n = 0
    THEN {<<>>}
    ELSE LET shorter == CandidateLists(n - 1) IN
         shorter \cup {Append(c, iv) : c \in shorter, iv \in ProperIntervals}

InitIntervals ==
    /\ num_nodes = 1
    /\ start_index = 0
    /\ edges = NewEdges(1)
    /\ value = NewValue(1, INF)
    /\ visited = NewVisited(1)
    /\ prev_node = NewPrev(1)
    /\ addr \in {[i \in {0} |-> 1]}
    /\ prio_queue = {}
    /\ pc = "call"
    /\ curr_cost_node = NoPair
    /\ edge_pos = 0
    /\ order = <<>>
    /\ path_call = NoPathCall
    /\ travel_call = NoTravelCall
    /\ fresh = NoFresh
    /\ tally = NoTally
    /\ cout = <<>>
    /\ lab1 = NoLab1
    /\ reset_calls = <<>>
    /\ \E interval \in ProperIntervals, candidates \in CandidateLists(MaxIntervals) :
        count_call = [called |-> FALSE, interval |-> interval,
                      candidates |-> candidates, ret |-> <<>>]

\* main: count_intervals(interval, intervals) is called and returns
CountCall ==
    /\ pc = "call"
    /\ \E sorted \in SortedOrders(Tagged(count_call.candidates)) :
        count_call' = [count_call EXCEPT
                         !.called = TRUE,
                         !.ret = count_intervals(count_call.interval, sorted)]
    /\ pc' = "returned"
    /\ UNCHANGED <<num_nodes, start_index, edges, value, visited, prev_node,
                   addr, prio_queue, curr_cost_node, edge_pos, order, path_call,
                   travel_call, fresh, tally, cout, lab1, reset_calls>>

NextIntervals == CountCall

SpecIntervals == InitIntervals /\ [][NextIntervals]_vars

(***************************************************************************)
(* Edge::get_travel_time on its own: every edge and current time of a      *)
(* bounded set, one call each                                              *)
(***************************************************************************)
Times == 0 .. MaxTime

InitTravelOver(times) ==
    /\ num_nodes = 1
    /\ start_index = 0
    /\ edges = NewEdges(1)
    /\ value = NewValue(1, INF)
    /\ visited = NewVisited(1)
    /\ prev_node = NewPrev(1)
    /\ addr \in {[i \in {0} |-> 1]}
    /\ prio_queue = {}
    /\ pc = "call"
    /\ curr_cost_node = NoPair
    /\ edge_pos = 0
    /\ order = <<>>
    /\ path_call = NoPathCall
    /\ \E s \in times, d \in times, t \in times, c \in times :
        travel_call = [called |-> FALSE, edge |-> Edge(0, t, s, d),
                       current_time |-> c, out |-> Returns(0)]
    /\ fresh = NoFresh
    /\ tally = NoTally
    /\ cout = <<>>
    /\ lab1 = NoLab1
    /\ reset_calls = <<>>
    /\ count_call = NoCountCall

InitTravel == InitTravelOver(Times)

\* edge.get_travel_time(current_time) is called and returns, or the process dies
TravelCall ==
    /\ pc = "call"
    /\ \E out \in get_travel_time(travel_call.edge, travel_call.current_time) :
        /\ travel_call' = [travel_call EXCEPT !.called = TRUE, !.out = out]
        /\ pc' = IF out.fault THEN "fault" ELSE "returned"
    /\ UNCHANGED <<num_nodes, start_index, edges, value, visited, prev_node,
                   addr, prio_queue, curr_cost_node, edge_pos, order, path_call,
                   fresh, tally, cout, lab1, reset_calls, count_call>>

NextTravel == TravelCall

SpecTravel == InitTravel /\ [][NextTravel]_vars

\* the same with times at both ends of the non-negative int
TimesWide == {0, 1, 2, INF - 2, INF - 1, INF}

InitTravelWide == InitTravelOver(TimesWide)

SpecTravelWide == InitTravelWide /\ [][NextTravel]_vars

(***************************************************************************)
(* The schedule function as the specification states it                    *)
(***************************************************************************)
\* steps 1 to 4: the arrival time at the head, or INF for "unreachable"
ScheduleFunction(current_time, departure_start, period, duration) ==
    IF period = 0 /\ current_time > departure_start
    THEN INF
    ELSE LET phase == IF period > 0
                      THEN (current_time - departure_start) % period
                      ELSE 0
             wait == IF current_time <= departure_start
                     THEN departure_start - current_time
                     ELSE IF phase = 0 THEN 0 ELSE period - phase
         IN current_time + duration + wait

\* C2: get_travel_time is total and pure: every call on non-negative inputs,
\* a one-shot edge asked at its start_time included, returns a value (no
\* modulo by zero) and leaves the edge it was called on as it was.
C2_TotalAndPure ==
    travel_call.called =>
        /\ ~travel_call.out.fault
        /\ pc = "returned"
        /\ travel_call.edge \in {Edge(0, t, s, d) : t \in Times, s \in Times, d \in Times}

\* C3: get_travel_time agrees with the four-step reference function: at or
\* before start_time (any period, 0 included) it returns start_time +
\* traverse_time; after start_time with a period > 0 it returns current_time +
\* traverse_time + wait (wait 0 on a departure, else period - phase); after
\* start_time with period 0 it returns the unreachable sentinel.
C3_AgreesWithReference ==
    travel_call.called =>
        LET e == travel_call.edge
            c == travel_call.current_time
            phase == (c - e.start_time) % e.departure_time
        IN
        /\ ~travel_call.out.fault
        /\ c <= e.start_time =>
                travel_call.out.ret = e.start_time + e.traverse_time
        /\ e.departure_time > 0 /\ c > e.start_time =>
                travel_call.out.ret =
                    c + e.traverse_time
                    + (IF phase = 0 THEN 0 ELSE e.departure_time - phase)
        /\ e.departure_time = 0 /\ c > e.start_time => travel_call.out.ret = INF
        /\ travel_call.out.ret =
                ScheduleFunction(c, e.start_time, e.departure_time, e.traverse_time)

\* C4: the search never fails: no run of dijkstra_timetable on a graph with
\* valid indices and non-negative timetables ends in a fault, one-shot edges
\* that depart exactly when their tail is reached included.
C4_SearchNeverFails == pc # "fault"

(***************************************************************************)
(* Arrival times along the paths of the graph                              *)
(***************************************************************************)
\* the value a call of get_travel_time returns when it returns
ArrivalVia(edge, current_time) ==
    (CHOOSE out \in get_travel_time(edge, current_time) : ~out.fault).ret

\* <<node, time>>: some path of at most k edges that starts at start_index at
\* time 0 reaches the node at that time, every edge taken by get_travel_time
RECURSIVE ArrivalsWithin(_)
ArrivalsWithin(k) ==
    IF k = 0
    THEN {<<start_index, 0>>}
    ELSE LET before == ArrivalsWithin(k - 1) IN
         before \cup
         UNION {{<<edges[a[1]][i].connection_node, ArrivalVia(edges[a[1]][i], a[2])>> :
                    i \in {j \in 1 .. Len(edges[a[1]]) :
                              ArrivalVia(edges[a[1]][j], a[2]) # INF}} :
                a \in before}

\* paths that visit no node twice have fewer than num_nodes edges; one edge
\* more lets a path close a cycle
Arrivals == ArrivalsWithin(num_nodes)

SetMin(S) == CHOOSE x \in S : \A y \in S : x <= y

\* the least time among the arrivals at v, INF when there is none
MinArrival(arrivals, v) ==
    LET times == {a[2] : a \in {b \in arrivals : b[1] = v}} IN
    IF times = {} THEN INF ELSE SetMin(times)

\* C1: when the search has returned, every node's value is the least arrival
\* time over the paths from the source to it (start at time 0, get_travel_time
\* applied edge by edge); a node no path arrives at keeps INF.
C1_EarliestArrival ==
    pc = "done" =>
        LET arrivals == Arrivals IN
        \A v \in Nodes : value[v] = MinArrival(arrivals, v)

\* a search has returned in which a node is reached earlier over two edges
\* than over an edge straight from the source
C1_Witness ==
    /\ pc = "done"
    /\ \E v \in Nodes, i \in 1 .. Len(edges[start_index]) :
        /\ edges[start_index][i].connection_node = v
        /\ prev_node[v] \notin {NULL, start_index}
        /\ ArrivalVia(edges[start_index][i], 0) < INF
        /\ value[v] < ArrivalVia(edges[start_index][i], 0)

\* C5: when the search has returned, a node is visited exactly if its value
\* is not INF; every node some path arrives at is visited with a finite value;
\* every other node has value INF, is not visited and has an empty path.
C5_VisitedIffFinite ==
    pc = "done" =>
        LET arrivals == Arrivals IN
        \A v \in Nodes :
            /\ visited[v] <=> value[v] # INF
            /\ (\E a \in arrivals : a[1] = v) => visited[v] /\ value[v] < INF
            /\ ~(\E a \in arrivals : a[1] = v) =>
                    value[v] = INF /\ ~visited[v] /\ get_path(v) = <<>>

\* a search has returned with a node reached over an edge and a node that
\* has an incoming edge from a visited node and still was not reached
C5_Witness ==
    /\ pc = "done"
    /\ \E v, w \in Nodes :
        /\ v # start_index /\ visited[v]
        /\ ~visited[w] /\ get_path(w) = <<>>
        /\ \E u \in Nodes :
            /\ visited[u]
            /\ \E i \in 1 .. Len(edges[u]) : edges[u][i].connection_node = w

\* what get_path(t) has to return: nothing for t outside 0..N-1 or not
\* visited, else the nodes from the source to t, each the prev_node of the next
PathIsRight(t, path) ==
    IF t \notin Nodes \/ ~visited[t]
    THEN path = <<>>
    ELSE /\ Len(path) >= 1
         /\ path[1] = start_index
         /\ path[Len(path)] = t
         /\ \A i \in 1 .. (Len(path) - 1) : prev_node[path[i + 1]] = path[i]
         /\ t = start_index => path = <<start_index>>

\* C6: after a search from s, get_path(t) is empty for t outside 0..N-1
\* (negative t included) and for t not visited; for a visited t it starts
\* with s, ends with t, and each node's prev_node is the node before it; for
\* t = s it is the one node s.
C6_PathFollowsPrev ==
    pc = "done" /\ path_call.called =>
        PathIsRight(path_call.arg, path_call.ret)

\* get_path has returned a path of three nodes
C6_Witness ==
    /\ pc = "done"
    /\ path_call.called
    /\ Len(path_call.ret) = 3

\* C7: the values of the nodes, in the order the nodes are marked visited,
\* never decrease.
C7_VisitOrderSorted ==
    \A i, j \in 1 .. Len(order) : i < j => order[i] <= order[j]

\* three nodes have been visited, the last two at different values
C7_Witness == Len(order) = 3 /\ order[2] < order[3]

\* C8: a step of the search changes neither the value nor the prev_node of
\* a node that is marked visited.
C8_VisitedIsFinal ==
    [][\A v \in Nodes :
        pc \in {"loop", "edges"} /\ visited[v] =>
            value'[v] = value[v] /\ prev_node'[v] = prev_node[v]]_vars

\* the edge loop is at an edge whose head is visited: a self-loop, or an
\* edge back to a node visited before the current one
C8_Witness ==
    /\ pc = "edges"
    /\ LET edge == edges[curr_cost_node[2]][edge_pos] IN
        /\ visited[edge.connection_node]
        /\ edge.connection_node # curr_cost_node[2]
        /\ edge_pos > 1
        /\ edges[curr_cost_node[2]][1].connection_node = curr_cost_node[2]

\* the edge the range-for of the search is at is a one-shot edge whose
\* departure has passed when its tail was reached
AtExpiredEdge ==
    /\ pc = "edges"
    /\ LET edge == edges[curr_cost_node[2]][edge_pos] IN
        /\ edge.departure_time = 0
        /\ value[curr_cost_node[2]] > edge.start_time

\* every edge into v leaves a node not visited, or is a one-shot edge whose
\* departure had passed when its tail was reached
OnlyExpiredInto(v) ==
    \A u \in Nodes : \A i \in 1 .. Len(edges[u]) :
        edges[u][i].connection_node = v =>
            \/ ~visited[u]
            \/ edges[u][i].departure_time = 0 /\ value[u] > edges[u][i].start_time

\* C10: relaxing a one-shot edge from a tail reached after the edge's
\* start_time changes no value and no prev_node and inserts no entry into the
\* queue; the edge (start 5, period 0, duration 2) asked at time 6 is
\* unreachable; and a node that only such edges lead to ends with INF.
C10_ExpiredOneShot ==
    [][/\ get_travel_time(Edge(1, 2, 5, 0), 6) = {Returns(INF)}
       /\ AtExpiredEdge =>
            value' = value /\ prev_node' = prev_node /\ prio_queue' = prio_queue
       /\ pc = "done" =>
            \A v \in Nodes \ {start_index} :
                OnlyExpiredInto(v) => value[v] = INF /\ ~visited[v]]_vars

\* the search is at an expired one-shot edge whose head is not visited
C10_Witness ==
    /\ AtExpiredEdge
    /\ ~visited[edges[curr_cost_node[2]][edge_pos].connection_node]

\* C9: the result of a search from s depends only on the edges and on s:
\* whatever searches were run before, and on whichever Graph object built from
\* these edges, every node ends with the value, the visited flag and the
\* prev_node that the first search from s on a freshly built graph gave it.
C9_SameAsFreshGraph ==
    pc = "done" /\ fresh.set /\ start_index = fresh.src =>
        /\ value = fresh.value
        /\ visited = fresh.visited
        /\ prev_node = fresh.prev_node

(***************************************************************************)
(* The wait of a periodic edge                                             *)
(***************************************************************************)
\* the wait_time of a call that returned: what line 58 added to
\* current_time + traverse_time
WaitOf(call) == call.out.ret - call.current_time - call.edge.traverse_time

\* current_time is start_time + k * departure_time for an integer k >= 0
IsDeparture(edge, current_time) ==
    \E k \in 0 .. MaxTime : current_time = edge.start_time + k * edge.departure_time

\* C11: for an edge with departure_time > 0 the wait of get_travel_time is 0
\* at every current_time = start_time + k * departure_time (k >= 0), and is
\* between 1 and departure_time - 1 at every other current_time > start_time.
C11_PeriodicWait ==
    travel_call.called /\ travel_call.edge.departure_time > 0 =>
        LET e == travel_call.edge
            c == travel_call.current_time
        IN
        /\ ~travel_call.out.fault
        /\ IsDeparture(e, c) => WaitOf(travel_call) = 0
        /\ c > e.start_time /\ ~IsDeparture(e, c) =>
                /\ 1 <= WaitOf(travel_call)
                /\ WaitOf(travel_call) <= e.departure_time - 1

\* a call between the second and the third departure of an edge that leaves
\* every three time units: two units are waited
C11_Witness ==
    /\ travel_call.called
    /\ travel_call.edge.departure_time = 3
    /\ travel_call.current_time = travel_call.edge.start_time + 4
    /\ ~travel_call.out.fault
    /\ WaitOf(travel_call) = 2

(***************************************************************************)
(* An edge taken before its first departure                                *)
(***************************************************************************)
\* edge 0->1 (start 5, period 0, duration 2), edge 1->2 (start 10, period 3,
\* duration 1), source 0
Scenario ==
    /\ start_index = 0
    /\ edges = [NewEdges(NumNodes) EXCEPT ![0] = <<Edge(1, 2, 5, 0)>>,
                                          ![1] = <<Edge(2, 1, 10, 3)>>]

\* C12: on the graph of Scenario the search ends with node 1 at 7 and node 2
\* at 11; and every edge asked before its start_time returns start_time +
\* traverse_time, so the head of an edge whose tail was reached before the
\* edge's start_time ends no later than start_time + traverse_time.
C12_FirstDeparture ==
    /\ pc = "done" /\ Scenario => value[1] = 7 /\ value[2] = 11
    /\ \A u \in Nodes : \A i \in 1 .. Len(edges[u]) :
        LET edge == edges[u][i] IN
        /\ \A c \in 0 .. (edge.start_time - 1) :
            get_travel_time(edge, c) =
                {Returns(edge.start_time + edge.traverse_time)}
        /\ pc = "done" /\ visited[u] /\ value[u] < edge.start_time =>
            /\ visited[edge.connection_node]
            /\ value[edge.connection_node] <= edge.start_time + edge.traverse_time

\* the search on the graph of Scenario has returned after relaxing both edges
C12_Witness ==
    /\ pc = "done"
    /\ Scenario
    /\ tally.relaxed = <<<<0, 1>>, <<1, 1>>>>

(***************************************************************************)
(* The answers of main                                                     *)
(***************************************************************************)
\* the int that a line of digits stands for
RECURSIVE ParseInt(_)
ParseInt(line) ==
    IF line = <<>>
    THEN 0
    ELSE 10 * ParseInt(SubSeq(line, 1, Len(line) - 1))
         + (CHOOSE d \in 0 .. 9 : Digits[d + 1] = line[Len(line)])

OnlyDigits(line) ==
    /\ line # <<>>
    /\ \A i \in 1 .. Len(line) : \E d \in 0 .. 9 : Digits[d + 1] = line[i]

\* every answer written so far fits the node it answers for
AnswersRight ==
    LET arrivals == IF cout = <<>> THEN {} ELSE Arrivals IN
    \A i \in 1 .. Len(cout) :
        LET q == cout[i].query
            line == cout[i].line
        IN
        /\ line = Impossible <=> value[q] = INF
        /\ line = Impossible <=> ~(\E a \in arrivals : a[1] = q)
        /\ line # Impossible =>
            /\ OnlyDigits(line)
            /\ ParseInt(line) = value[q]
            /\ value[q] >= 0
            /\ value[q] = MinArrival(arrivals, q)

\* C14: after a returned search the line written for a query q is
\* Impossible exactly if value[q] = INF (no path arrives at q), and else the
\* decimal digits of value[q], which is the earliest arrival and not negative;
\* each answer is appended after the answers before it, and answering changes
\* no value, visited flag or prev_node.
C14_AnswersInOrder ==
    [][/\ AnswersRight'
       /\ pc = "done" /\ pc' = "done" =>
            /\ Len(cout') = Len(cout) + 1
            /\ SubSeq(cout', 1, Len(cout)) = cout
            /\ value' = value /\ visited' = visited /\ prev_node' = prev_node]_vars

\* two queries were answered, the first with a time of two digits, the
\* second with Impossible
C14_Witness ==
    /\ Len(cout) = 2
    /\ Len(cout[1].line) = 2
    /\ cout[1].line # Impossible
    /\ cout[2].line = Impossible

(***************************************************************************)
(* The work of a search                                                    *)
(***************************************************************************)
NoRepeats(seq) == \A i, j \in 1 .. Len(seq) : i # j => seq[i] # seq[j]

\* no node was visited twice, no edge was relaxed twice, and the entries
\* inserted into the queue are at most one per edge and one for the source
WorkIsBounded ==
    /\ NoRepeats(tally.visits)
    /\ NoRepeats(tally.relaxed)
    /\ tally.inserts <= EdgeCount + 1

\* C13: every search that was started empties the queue and returns, and
\* while it runs each node is visited at most once, each edge is relaxed at
\* most once and at most EdgeCount + 1 entries are inserted into the queue.
C13_SearchTerminates ==
    /\ [](WorkIsBounded)
    /\ (pc = "loop") ~> (pc = "done")

(***************************************************************************)
(* Sums past INT_MAX                                                       *)
(***************************************************************************)
\* C15: the sentinel and wrap-around never make a spurious improvement:
\* get_travel_time is never called with current_time = INF; relaxing an
\* expired one-shot edge (INF returned) changes no value and inserts nothing;
\* and a value that a relaxation stores is not negative and is at least the
\* tail's value plus the edge's traverse_time, never a sum that wrapped.
C15_NoSpuriousImprovement ==
    [][/\ pc = "edges" => value[curr_cost_node[2]] # INF
       /\ AtExpiredEdge =>
            value' = value /\ prev_node' = prev_node /\ prio_queue' = prio_queue
       /\ pc = "edges" =>
            \A v \in Nodes :
                value'[v] # value[v] =>
                    LET current_time == value[curr_cost_node[2]]
                        edge == edges[curr_cost_node[2]][edge_pos]
                    IN
                    /\ value'[v] >= 0
                    /\ current_time >= 0 =>
                        /\ value'[v] >= current_time
                        /\ value'[v] - current_time >= edge.traverse_time]_vars

(***************************************************************************)
(* Timetables that leave at every time unit                                *)
(***************************************************************************)
\* C16: on edges given as (start_time 0, departure_time 1, traverse_time w)
\* the timetable search leaves every node with the value and the visited flag
\* that the constant-weight dijkstra leaves it with on the same edges of cost
\* w (so the same nodes are unreachable), and get_travel_time on such an edge
\* returns current_time + w at every current_time.
C16_SameAsConstantWeight ==
    /\ \A u \in Nodes : \A i \in 1 .. Len(edges[u]) :
        \A c \in 0 .. (MaxWeight * num_nodes) :
            get_travel_time(edges[u][i], c) =
                {Returns(c + edges[u][i].traverse_time)}
    /\ lab1.ran =>
        \A v \in Nodes :
            /\ value[v] = lab1.value[v]
            /\ visited[v] = lab1.visited[v]
            /\ value[v] = INF <=> lab1.value[v] = INF

\* both searches have returned: a node was reached over two edges at a time
\* above 0, though an edge leads to it straight from the source
C16_Witness ==
    /\ lab1.ran
    /\ \E v \in Nodes :
        /\ lab1.value[v] > 0
        /\ value[v] = lab1.value[v]
        /\ lab1.prev_node[v] \notin {NULL, start_index}
        /\ \E i \in 1 .. Len(edges[start_index]) :
            edges[start_index][i].connection_node = v

(***************************************************************************)
(* The entries of the queue                                                *)
(***************************************************************************)
\* C17: an entry extracted for a node not visited yet carries the node's
\* value, so the node is visited at the time of its entry; an entry whose
\* time differs from its node's value is above that value, has the node's
\* latest entry still before it in the queue or the node visited already, and
\* is extracted only when the node is visited.
C17_ExtractedKeyIsValue ==
    /\ pc = "loop" /\ prio_queue # {} =>
        LET entry == Begin(prio_queue) IN
        ~visited[entry[2]] => entry[1] = value[entry[2]]
    /\ \A entry \in prio_queue :
        entry[1] # value[entry[2]] =>
            /\ entry[1] > value[entry[2]]
            /\ visited[entry[2]] \/ <<value[entry[2]], entry[2]>> \in prio_queue
    /\ curr_cost_node # NoPair =>
        /\ visited[curr_cost_node[2]]
        /\ curr_cost_node[1] >= value[curr_cost_node[2]]
        /\ pc = "edges" => curr_cost_node[1] = value[curr_cost_node[2]]
        /\ curr_cost_node[1] # value[curr_cost_node[2]] =>
            \E i \in 1 .. Len(order) : order[i] = value[curr_cost_node[2]]

\* a stale entry has just been extracted and dropped
C17_Witness ==
    /\ pc = "loop"
    /\ curr_cost_node # NoPair
    /\ curr_cost_node[1] > value[curr_cost_node[2]]

(***************************************************************************)
(* Entries of equal time                                                   *)
(***************************************************************************)
\* C18: the queue is ordered by (time, node index): the entry extracted next
\* has the least time, and among the entries of that time the least node
\* index.
C18_TiesByNodeIndex ==
    pc = "loop" /\ prio_queue # {} =>
        \A entry \in prio_queue :
            \/ Begin(prio_queue)[1] < entry[1]
            \/ /\ Begin(prio_queue)[1] = entry[1]
               /\ Begin(prio_queue)[2] <= entry[2]

(***************************************************************************)
(* The predecessor links                                                   *)
(***************************************************************************)
\* the node k links of prev_node back from v (NULL once the links end)
RECURSIVE Ancestor(_, _)
Ancestor(v, k) ==
    IF k = 0 \/ v = NULL THEN v ELSE Ancestor(prev_node[v], k - 1)

\* C19: when the search from s has returned, prev_node is nullptr exactly for
\* s (whatever edges lead into s) and for the nodes not reached; every other
\* node v has a visited prev_node p with an edge p->v whose get_travel_time
\* at p's value is v's value; and the links lead from every reached node back
\* to s in fewer than num_nodes steps, so they form a tree rooted at s.
C19_PredecessorTree ==
    pc = "done" =>
        \A v \in Nodes :
            /\ prev_node[v] = NULL <=> (v = start_index \/ value[v] = INF)
            /\ value[v] = INF <=> ~visited[v]
            /\ prev_node[v] # NULL =>
                LET p == prev_node[v] IN
                /\ visited[p]
                /\ \E i \in 1 .. Len(edges[p]) :
                    /\ edges[p][i].connection_node = v
                    /\ Returns(value[v]) \in get_travel_time(edges[p][i], value[p])
            /\ visited[v] =>
                \E k \in 0 .. (num_nodes - 1) :
                    /\ Ancestor(v, k) = start_index
                    /\ Ancestor(v, k + 1) = NULL

\* a search has returned on a cycle through the source: s -> a -> b -> s
C19_Witness ==
    /\ pc = "done"
    /\ \E a, b \in Nodes :
        /\ prev_node[a] = start_index
        /\ prev_node[b] = a
        /\ \E i \in 1 .. Len(edges[b]) :
            edges[b][i].connection_node = start_index

(***************************************************************************)
(* get_travel_time never goes back in time                                 *)
(***************************************************************************)
\* C20: for non-negative inputs a result of get_travel_time other than the
\* unreachable sentinel is at least current_time + traverse_time, so never
\* below current_time; and get_travel_time is monotone: a call at a later
\* current_time on the same edge does not return less (INF above every time).
C20_NeverEarlierAndFifo ==
    travel_call.called /\ ~travel_call.out.fault =>
        LET e == travel_call.edge
            c == travel_call.current_time
            r == travel_call.out.ret
        IN
        /\ r # INF =>
            /\ r >= c
            /\ r - c >= e.traverse_time
        /\ \A t2 \in TimesWide \cup Times :
            t2 >= c =>
                \A later \in get_travel_time(e, t2) :
                    ~later.fault => r <= later.ret

(***************************************************************************)
(* What a reset and a search leave alone                                   *)
(***************************************************************************)
\* the nodes, their addresses and every node's list of edges are as before
GraphKept == num_nodes' = num_nodes /\ addr' = addr /\ edges' = edges

\* C21: graph_reset(new_start, init) leaves every node with value init, not
\* visited and without prev_node, and start_index = new_start; it changes
\* neither the nodes nor any node's list of edges (heads, start_time,
\* departure_time, traverse_time, in the order they were added). The reset at
\* the start of a search does the same with INF (the source then gets 0), and
\* no step of a search changes the nodes or an edge.
C21_ResetKeepsEdges ==
    [][/\ reset_calls' # reset_calls =>
            LET call == reset_calls'[Len(reset_calls')] IN
            /\ \A v \in Nodes :
                /\ value'[v] = call.init_value
                /\ ~visited'[v]
                /\ prev_node'[v] = NULL
            /\ start_index' = call.new_start_index
            /\ GraphKept
       /\ pc \in {"build", "built", "done"} /\ pc' = "loop" =>
            /\ \A v \in Nodes :
                /\ value'[v] = IF v = start_index' THEN 0 ELSE INF
                /\ ~visited'[v]
                /\ prev_node'[v] = NULL
            /\ GraphKept
       /\ pc \in {"loop", "edges"} => GraphKept]_vars

\* graph_reset was called after a search that had visited two nodes, with a
\* start index other than the source of that search and a value other than
\* INF, and the graph has an edge
C21_Witness ==
    /\ reset_calls # <<>>
    /\ pc = "done"
    /\ Len(tally.visits) >= 2
    /\ start_index # tally.visits[1]
    /\ EdgeCount >= 1
    /\ \A v \in Nodes : value[v] = 1 /\ ~visited[v] /\ prev_node[v] = NULL

(***************************************************************************)
(* The fewest intervals that cover the target                              *)
(***************************************************************************)
\* the candidates with an index in S cover every point of the target: with
\* integer endpoints it is enough to look at the points x / 2
CoversTarget(S, interval, candidates) ==
    \A x \in (2 * interval[1]) .. (2 * interval[2]) :
        \E k \in S :
            2 * candidates[k + 1][1] <= x /\ x <= 2 * candidates[k + 1][2]

\* the sets of candidate indices that cover the target
Covers(interval, candidates) ==
    {S \in SUBSET (0 .. (Len(candidates) - 1)) :
        CoversTarget(S, interval, candidates)}

\* C22: count_intervals returns <<-1>> exactly if no set of candidates covers
\* the target [start, end]; else it returns indices of candidates, none twice,
\* that cover the target, and no covering set has fewer candidates (integer
\* endpoints; a target with start = end and an empty candidate list included).
C22_FewestCover ==
    count_call.called =>
        LET covers == Covers(count_call.interval, count_call.candidates)
            ret == count_call.ret
            returned == {ret[k] : k \in 1 .. Len(ret)}
        IN
        /\ ret = <<-1>> <=> covers = {}
        /\ ret # <<-1>> =>
            /\ returned \in covers
            /\ NoRepeats(ret)
            /\ \A S \in covers : Len(ret) <= Cardinality(S)

\* a call has returned two indices though all three candidates start inside
\* the target and none alone covers it
C22_Witness ==
    /\ count_call.called
    /\ Len(count_call.candidates) = 3
    /\ Len(count_call.ret) = 2
    /\ \A k \in 1 .. 3 :
        /\ count_call.candidates[k][1] >= count_call.interval[1]
        /\ ~CoversTarget({k - 1}, count_call.interval, count_call.candidates)

====
